---- MODULE Spec2Model ----
(***************************************************************************)
(* FakeLDAT measurement-and-control engine (protocol variant):             *)
(* Sensor, Button, Action, the threshold history, the trigger-override     *)
(* machine, the 16-byte command protocol and FakeLDAT::tick.               *)
(*                                                                         *)
(* One engine tick is two kinds of step: HandleFrame, one iteration of     *)
(* the drain loop of check_for_commands, and TickRest, the exit of that    *)
(* loop followed by update() and the reports of the same tick().           *)
(***************************************************************************)
EXTENDS Integers, Sequences, FiniteSets, TLC

\* ------------------------------------------------------------ enumerations

RAW == 0
SUMMARY == 1
COMBINED == 2

MOUSE == 0
KEYBOARD == 1

RELEASE == 0
PRESS == 1
OVERRIDE_IN_PROGRESS == 2
NOOVERRIDE == 3

SET_POLL_RATE == 1
GET_POLL_RATE == 33
SET_REPORT_MODE == 2
GET_REPORT_MODE == 34
SET_THRESHOLD == 3
GET_THRESHOLD == 35
SET_ACTION == 4
GET_ACTION == 36
MANUAL_TRIGGER == 31
REPORT_RAW == 65
REPORT_SUMMARY == 66

allowed_commands ==
  << SET_POLL_RATE, GET_POLL_RATE, SET_REPORT_MODE, GET_REPORT_MODE,
     SET_THRESHOLD, GET_THRESHOLD, SET_ACTION, GET_ACTION, MANUAL_TRIGGER >>

commands_count == Len(allowed_commands)

\* Size of a command or report frame (uint8_t command[16], uint8_t bytes[16]).
FRAME_SIZE == 16

HISTORY_SIZE == 150

\* Arduino's Mouse.h button code and the key 'x' that Action's constructor stores.
MOUSE_LEFT == 1
KEY_X == 120

\* Resolution passed to analogReadResolution; brightness is inverted against it.
ADC_RESOLUTION == 12

\* const bool trigger_on_press = true
trigger_on_press == TRUE

\* Arguments of the constructor call in setup().
SETUP_RATE == 2000

\* Numerators of the two interval computations.
MICROS_PER_SECOND == 1000000
PULSE_MICROS == 50000

\* ------------------------------------------------------------------ bounds

\* Ticks and command frames of one behaviour of the engine.
MaxTicks == 2
MaxFrames == 2
\* Ticks of one behaviour of the manual-pulse scenario (a 100-tick pulse fits).
MaxPulseTicks == 104
\* Updates of one behaviour of the constant-stream threshold scenario.
MaxUpdates == 152
\* Reading of the microsecond clock when the engine is constructed.
BootTime == 1000
\* Ticks and MANUAL_TRIGGER frames of one behaviour of the override scenario.
MaxOverrideTicks == 4
MaxTriggers == 2
\* Ticks the fair manual-pulse scenario makes while no override is active.
MaxIdleTicks == 3
\* The step-stream threshold scenario: the first MaxLitUpdates samples are
\* free, the later ones are 0, MaxStepUpdates updates in all (every free
\* sample is overwritten again).
MaxLitUpdates == 3
MaxStepUpdates == 154

\* ------------------------------------------------------- fixed-width words

\* The uint64_t value 2^64 - 1 (all bits set). It lies outside the integers the
\* checker can hold, so it is written as its two's-complement reading.
AllOnes == -1

Pow2(n) == 2 ^ n

\* Conversion to uint8_t / uint16_t: reduction modulo 2^8 / 2^16.
U8(x) == ((x % 256) + 256) % 256
U16(x) == ((x % 65536) + 65536) % 65536

\* Conversion of a 16-bit pattern to int16_t.
I16(x) == IF U16(x) >= 32768 THEN U16(x) - 65536 ELSE U16(x)

\* (x >> (8 * i)) & 0xFF for a 64-bit x. Every other modelled value stays below
\* 2^31, so its bytes 4..7 are zero.
ByteOf(x, i) ==
  IF x = AllOnes THEN 255
  ELSE IF i > 3 THEN 0
  ELSE (x \div Pow2(8 * i)) % 256

\* numerator / divisor in uint64_t arithmetic, for a non-zero divisor.
U64Div(numerator, divisor) ==
  IF divisor = AllOnes THEN 0 ELSE numerator \div divisor

\* The outcomes of numerator / divisor. Division by zero is undefined: the build
\* may trap, or deliver a quotient of zero or of all ones.
Divide(numerator, divisor) ==
  IF divisor = 0
  THEN { [trap |-> TRUE, q |-> 0], [trap |-> FALSE, q |-> 0],
         [trap |-> FALSE, q |-> AllOnes] }
  ELSE { [trap |-> FALSE, q |-> U64Div(numerator, divisor)] }

\* ------------------------------------------------------------------- state

VARIABLES
  interval_us,              \* FakeLDAT::interval_us
  mode,                     \* FakeLDAT::mode
  threshold,                \* FakeLDAT::threshold (int16_t bias)
  action_mode,              \* Action::mode
  action_button,            \* Action::button
  trigger_override,         \* FakeLDAT::trigger_override
  trigger_override_count,   \* FakeLDAT::trigger_override_count
  last_state,               \* Button::last_state
  current_state,            \* Button::current_state
  brightness,               \* Sensor::brightness
  timestamp,                \* FakeLDAT::timestamp
  trigger_high_timestamp,   \* FakeLDAT::trigger_high_timestamp
  history,                  \* calc_threshold's static history[HISTORY_SIZE]
  count,                    \* calc_threshold's static count
  halted,                   \* the program was stopped by a trap
  rx,                       \* command[] as the latest drain iteration read it
  resp,                     \* command[] as that iteration wrote it back, or << >>
  reports,                  \* frames written by the reports of the latest tick
  sink,                     \* Action calls made by update() of the latest tick
  last_threshold,           \* value returned by the latest calc_threshold call
  ticks,                    \* completed ticks
  frames,                   \* frames read so far
  mode_request,             \* byte 1 of the latest accepted SET_REPORT_MODE, or -1
  pins,                     \* the latest two pin levels Button::measure has read
  pulse_seen,               \* a MANUAL_TRIGGER has been accepted
  pulse_ticks,              \* ticks completed since then
  pulse_press,              \* press calls since then
  pulse_release,            \* release calls since then
  pulse_oip,                \* ticks since then whose update() found
                            \* OVERRIDE_IN_PROGRESS and made no Action call
  oip_count,                \* trigger_override_count at the end of the latest tick
                            \* that ended in OVERRIDE_IN_PROGRESS, or -1
  last_call                 \* the latest Action call made since construction:
                            \* "press", "release", or "none" before the first

config == << interval_us, mode, threshold, action_mode, action_button >>
override == << trigger_override, trigger_override_count >>
button == << last_state, current_state >>
sampling == << brightness, timestamp, trigger_high_timestamp >>
estimator == << history, count, last_threshold >>
wire == << rx, resp, reports >>
pulse == << pulse_seen, pulse_ticks, pulse_press, pulse_release, pulse_oip >>
calls == << oip_count, last_call >>

vars == << config, override, button, sampling, estimator, halted, wire, sink,
           ticks, frames, mode_request, pins, pulse, calls >>

\* ------------------------------------------------------------------ Sensor

\* Sensor::measure: the reading XOR (2^ADC_RESOLUTION - 1). For a reading within
\* the resolution the XOR with all ones is the complement to 2^ADC_RESOLUTION - 1.
SensorMeasure(reading) == (Pow2(ADC_RESOLUTION) - 1) - reading

\* ------------------------------------------------------------------ Button

\* Button::measure: the pair << last_state, current_state >> after the call.
\* digitalRead(pin) == LOW is the argument pin_low.
ButtonMeasure(cur, pin_low) == << cur, pin_low >>

\* Button::state_changed
state_changed(last, cur) == last # cur

\* ------------------------------------------------------------------ Action

\* Action::Action: the button chosen for a mode.
ActionButton(m) == IF m = MOUSE THEN MOUSE_LEFT ELSE KEY_X

\* Action::press / Action::release: the backend the call reaches, if any.
ActionBackend(m) ==
  IF m = MOUSE THEN "mouse" ELSE IF m = KEYBOARD THEN "keyboard" ELSE "none"

ActionCall(kind, m, b) == [call |-> kind, backend |-> ActionBackend(m), button |-> b]

\* -------------------------------------------------------------- calc_threshold

\* static uint16_t history[HISTORY_SIZE]{} is held as a function on the slots
\* written so far; a slot not yet written still has its initial value, zero.
Slot(h, i) == IF i \in DOMAIN h THEN h[i] ELSE 0

RECURSIVE SumSlots(_, _, _)
\* for (auto& num : history) sum += num, over slots lo .. hi. The range is
\* summed by halves, which keeps the evaluation shallow; the sum is the same.
\* Slots are first written in index order (count starts at 0), so from the
\* first unwritten slot on every slot is zero.
SumSlots(h, lo, hi) ==
  IF lo > hi \/ lo \notin DOMAIN h THEN 0
  ELSE IF lo = hi THEN Slot(h, lo)
  ELSE LET mid == (lo + hi) \div 2
       IN SumSlots(h, lo, mid) + SumSlots(h, mid + 1, hi)

\* A ring index that wraps one slot early.
HistoryIndexShort(c) == c % (HISTORY_SIZE - 1)

\* The slot calc_threshold overwrites.
HistoryIndex(c) == c % HISTORY_SIZE

\* The value calc_threshold returns: the sum of the slots before the write,
\* divided by HISTORY_SIZE, plus the bias, converted to uint16_t.
ThresholdValue(h, bias) ==
  U16((SumSlots(h, 0, HISTORY_SIZE - 1) \div HISTORY_SIZE) + bias)

\* The history after calc_threshold(current_value).
HistoryWrite(h, c, current_value) ==
  [i \in (DOMAIN h) \cup { HistoryIndex(c) } |->
     IF i = HistoryIndex(c) THEN current_value ELSE h[i]]

\* A calc_threshold that stores the sample before it sums the slots.
calc_threshold_write_first(h, c, bias, current_value) ==
  [ value |-> ThresholdValue(HistoryWrite(h, c, current_value), bias),
    history |-> HistoryWrite(h, c, current_value),
    count |-> c + 1 ]

\* FakeLDAT::calc_threshold(current_value) on the statics h (history) and c
\* (count): the value returned and the statics after the call.
calc_threshold(h, c, bias, current_value) ==
  [ value |-> ThresholdValue(h, bias),
    history |-> HistoryWrite(h, c, current_value),
    count |-> c + 1 ]

\* ------------------------------------------------------ update_trigger_override

\* An advance that forgets to collapse Release.
update_trigger_override_holds_release(ov, cnt) ==
  IF ov = PRESS /\ cnt # 0 THEN << OVERRIDE_IN_PROGRESS, U16(cnt - 1) >>
  ELSE IF ov = PRESS THEN << RELEASE, cnt >>
  ELSE IF ov = NOOVERRIDE \/ ov = RELEASE THEN << ov, cnt >>
  ELSE IF cnt = 0 THEN << RELEASE, cnt >>
  ELSE << ov, U16(cnt - 1) >>

\* An advance that decrements without testing the counter for zero.
update_trigger_override_wraps(ov, cnt) ==
  IF ov = RELEASE \/ ov = NOOVERRIDE THEN << NOOVERRIDE, cnt >>
  ELSE << OVERRIDE_IN_PROGRESS, U16(cnt - 1) >>

\* An advance that leaves the counter alone on the tick that starts the pulse.
update_trigger_override_late(ov, cnt) ==
  IF ov = PRESS THEN << OVERRIDE_IN_PROGRESS, cnt >>
  ELSE IF ov = RELEASE \/ ov = NOOVERRIDE THEN << NOOVERRIDE, cnt >>
  ELSE IF cnt = 0 THEN << RELEASE, cnt >>
  ELSE << ov, U16(cnt - 1) >>

\* FakeLDAT::update_trigger_override: << trigger_override, trigger_override_count >>
\* after the call.
update_trigger_override(ov, cnt) ==
  LET ov1 == IF ov = PRESS THEN OVERRIDE_IN_PROGRESS
             ELSE IF ov = RELEASE THEN NOOVERRIDE
             ELSE ov
  IN IF ov1 = NOOVERRIDE THEN << ov1, cnt >>
     ELSE IF ov1 = OVERRIDE_IN_PROGRESS /\ cnt = 0 THEN << RELEASE, cnt >>
     ELSE << ov1, U16(cnt - 1) >>

\* ---------------------------------------------------------------- checksums

RECURSIVE calc_checksum(_, _)
\* FakeLDAT::calc_checksum: a uint8_t accumulator over buf[0 .. length-1].
calc_checksum(buf, length) ==
  IF length = 0 THEN 0 ELSE U8(calc_checksum(buf, length - 1) + buf[length])

\* FakeLDAT::valid_checksum
valid_checksum(buf, length) ==
  LET last_element_index == length - 1
  IN buf[last_element_index + 1] = calc_checksum(buf, last_element_index)

\* The allow-list scan at the head of the drain loop.
valid_command(buf) == \E i \in 1..commands_count : allowed_commands[i] = buf[1]

\* ---------------------------------------------------------------- write_report

\* Bytes 1 .. 8 and 9 .. 10 of a report, as write_report fills them.
TimestampBytes(ts) == [i \in 0..7 |-> ByteOf(ts, i)]
BrightnessBytes(b) == [i \in 0..1 |-> ByteOf(b, i)]

\* A checksum that leaves the trigger byte out.
ReportChecksumNoTrigger(command, ts, b, trig) ==
  U8(command + ByteOf(ts, 0) + ByteOf(ts, 1) + ByteOf(ts, 2) + ByteOf(ts, 3)
     + ByteOf(ts, 4) + ByteOf(ts, 5) + ByteOf(ts, 6) + ByteOf(ts, 7)
     + ByteOf(b, 0) + ByteOf(b, 1))

\* The checksum write_report accumulates field by field in a uint8_t.
ReportChecksum(command, ts, b, trig) ==
  LET tb == TimestampBytes(ts)
      bb == BrightnessBytes(b)
      c0 == U8(command)
      c1 == U8(c0 + tb[0])
      c2 == U8(c1 + tb[1])
      c3 == U8(c2 + tb[2])
      c4 == U8(c3 + tb[3])
      c5 == U8(c4 + tb[4])
      c6 == U8(c5 + tb[5])
      c7 == U8(c6 + tb[6])
      c8 == U8(c7 + tb[7])
      c9 == U8(c8 + bb[0])
      c10 == U8(c9 + bb[1])
  IN U8(c10 + trig)

\* FakeLDAT::write_report: the 16 bytes handed to Serial.write.
write_report(command, ts, b, trig) ==
  LET tb == TimestampBytes(ts)
      bb == BrightnessBytes(b)
  IN << command, tb[0], tb[1], tb[2], tb[3], tb[4], tb[5], tb[6], tb[7],
        bb[0], bb[1], trig, 0, 0, 0, ReportChecksum(command, ts, b, trig) >>

\* ------------------------------------------------------------- report selection

\* A raw test that forgets the Raw mode itself.
ReportsRawCombinedOnly(m) == m = COMBINED

\* The two tests of FakeLDAT::tick.
ReportsRaw(m) == m = RAW \/ m = COMBINED
ReportsSummary(m) == m = SUMMARY \/ m = COMBINED

\* ------------------------------------------------------------ command dispatch

\* The u16 a frame carries in bytes 1-2:
\* static_cast<unsigned>(command[2]) << 8 | static_cast<unsigned>(command[1]).
Word(buf) == buf[3] * 256 + buf[2]

\* The tail of an accepted iteration: the checksum is recomputed over bytes
\* 0 .. 14 and the frame is written to the transport.
Respond(cmd) ==
  LET answer == [cmd EXCEPT ![FRAME_SIZE] = calc_checksum(cmd, FRAME_SIZE - 1)]
  IN resp' = answer

\* An iteration that writes nothing.
Silent == resp' = << >>

\* A division trapped: the program stops where it is.
Trap == halted' = TRUE /\ Silent

\* case GET_POLL_RATE: the two evaluations of 1000000 / get_interval().
AnswerPollRate(cmd, interval) ==
  \E lo \in Divide(MICROS_PER_SECOND, interval) :
    \E hi \in Divide(MICROS_PER_SECOND, interval) :
      IF lo.trap \/ hi.trap
      THEN Trap
      ELSE /\ halted' = halted
           /\ Respond([cmd EXCEPT ![2] = ByteOf(lo.q, 0), ![3] = ByteOf(hi.q, 1)])

\* A set_rate that stores the rate itself as the interval.
set_rate_stores_rate(rate) == { [trap |-> FALSE, q |-> rate] }

\* FakeLDAT::set_rate: the outcomes of interval_us = 1000000 / rate.
set_rate(rate) == Divide(MICROS_PER_SECOND, rate)

\* case SET_POLL_RATE, falling through to GET_POLL_RATE.
DoSetPollRate(cmd) ==
  /\ UNCHANGED << mode, threshold, action_mode, action_button, override,
                  mode_request, pulse >>
  /\ \E stored \in set_rate(Word(cmd)) :
       IF stored.trap
       THEN Trap /\ interval_us' = interval_us
       ELSE interval_us' = stored.q /\ AnswerPollRate(cmd, stored.q)

DoGetPollRate(cmd) ==
  /\ UNCHANGED << config, override, mode_request, pulse >>
  /\ AnswerPollRate(cmd, interval_us)

\* The range test of case SET_REPORT_MODE.
ReportModeAccepted(b) == ~(b > 3)

\* case GET_REPORT_MODE: command[1] = mode.
AnswerReportMode(cmd, m) == Respond([cmd EXCEPT ![2] = m])

\* case SET_REPORT_MODE, falling through to GET_REPORT_MODE unless it breaks.
DoSetReportMode(cmd) ==
  /\ UNCHANGED << interval_us, threshold, action_mode, action_button, override,
                  halted, pulse >>
  /\ mode_request' = cmd[2]
  /\ IF ReportModeAccepted(cmd[2])
     THEN mode' = cmd[2] /\ AnswerReportMode(cmd, cmd[2])
     ELSE mode' = mode /\ Respond(cmd)

DoGetReportMode(cmd) ==
  /\ UNCHANGED << config, override, halted, mode_request, pulse >>
  /\ AnswerReportMode(cmd, mode)

\* The bytes case GET_THRESHOLD stores: threshold & 0xFF, threshold >> 8 & 0xFF.
AnswerThreshold(cmd, bias) ==
  Respond([cmd EXCEPT ![2] = ByteOf(U16(bias), 0), ![3] = ByteOf(U16(bias), 1)])

\* case SET_THRESHOLD, falling through to GET_THRESHOLD.
DoSetThreshold(cmd) ==
  /\ UNCHANGED << interval_us, mode, action_mode, action_button, override,
                  halted, mode_request, pulse >>
  /\ threshold' = I16(Word(cmd))
  /\ AnswerThreshold(cmd, I16(Word(cmd)))

DoGetThreshold(cmd) ==
  /\ UNCHANGED << config, override, halted, mode_request, pulse >>
  /\ AnswerThreshold(cmd, threshold)

\* The range test of case SET_ACTION.
ActionModeAccepted(b) == ~(b > 2)

\* case GET_ACTION: command[1] = action->mode, command[2] = action->button.
AnswerAction(cmd, m, b) == Respond([cmd EXCEPT ![2] = m, ![3] = b])

\* case SET_ACTION, falling through to GET_ACTION unless it breaks.
DoSetAction(cmd) ==
  /\ UNCHANGED << interval_us, mode, threshold, override, halted, mode_request,
                  pulse >>
  /\ IF ActionModeAccepted(cmd[2])
     THEN /\ action_mode' = cmd[2]
          /\ action_button' = cmd[3]
          /\ AnswerAction(cmd, cmd[2], cmd[3])
     ELSE /\ UNCHANGED << action_mode, action_button >>
          /\ Respond(cmd)

DoGetAction(cmd) ==
  /\ UNCHANGED << config, override, halted, mode_request, pulse >>
  /\ AnswerAction(cmd, action_mode, action_button)

\* FakeLDAT::manual_trigger: the outcomes of 50 * 1000 / interval_us.
manual_trigger(interval) == Divide(PULSE_MICROS, interval)

\* case MANUAL_TRIGGER: the frame is answered as received.
DoManualTrigger(cmd) ==
  /\ UNCHANGED << config, mode_request >>
  /\ trigger_override' = PRESS
  /\ pulse_seen' = TRUE
  /\ pulse_ticks' = 0
  /\ pulse_press' = 0
  /\ pulse_release' = 0
  /\ pulse_oip' = 0
  /\ \E n \in manual_trigger(interval_us) :
       IF n.trap
       THEN Trap /\ trigger_override_count' = trigger_override_count
       ELSE /\ trigger_override_count' = U16(n.q)
            /\ halted' = halted
            /\ Respond(cmd)

\* default: the frame is answered as received.
DoDefault(cmd) ==
  /\ UNCHANGED << config, override, halted, mode_request, pulse >>
  /\ Respond(cmd)

\* switch ((Command)command[0]) for a frame that passed both tests.
Dispatch(cmd) ==
  CASE cmd[1] = SET_POLL_RATE -> DoSetPollRate(cmd)
    [] cmd[1] = GET_POLL_RATE -> DoGetPollRate(cmd)
    [] cmd[1] = SET_REPORT_MODE -> DoSetReportMode(cmd)
    [] cmd[1] = GET_REPORT_MODE -> DoGetReportMode(cmd)
    [] cmd[1] = SET_THRESHOLD -> DoSetThreshold(cmd)
    [] cmd[1] = GET_THRESHOLD -> DoGetThreshold(cmd)
    [] cmd[1] = SET_ACTION -> DoSetAction(cmd)
    [] cmd[1] = GET_ACTION -> DoGetAction(cmd)
    [] cmd[1] = MANUAL_TRIGGER -> DoManualTrigger(cmd)
    [] OTHER -> DoDefault(cmd)

\* A mis-joined test that drops a frame only when both checks fail.
RejectedWhenBothFail(buf) == ~valid_command(buf) /\ ~valid_checksum(buf, FRAME_SIZE)

\* if (!valid_command || !valid_checksum(command, sizeof(command))) continue;
Rejected(buf) == ~valid_command(buf) \/ ~valid_checksum(buf, FRAME_SIZE)

\* One iteration of the drain loop of FakeLDAT::check_for_commands on the
\* 16 bytes f read from the transport.
HandleFrame(f) ==
  /\ ~halted
  /\ rx' = f
  /\ frames' = frames + 1
  /\ UNCHANGED << button, sampling, estimator, reports, sink, ticks, pins,
                  calls >>
  /\ IF Rejected(f)
     THEN /\ Silent
          /\ UNCHANGED << config, override, halted, mode_request, pulse >>
     ELSE Dispatch(f)

\* ------------------------------------------------------------------- update

\* A switch whose button branch also runs while a pulse is in progress.
UpdateCallButtonInPulse(ov, changed, cur) ==
  CASE ov = RELEASE -> "release"
    [] ov = PRESS -> "press"
    [] ov \in { NOOVERRIDE, OVERRIDE_IN_PROGRESS } /\ changed /\ cur = trigger_on_press
         -> "press"
    [] ov \in { NOOVERRIDE, OVERRIDE_IN_PROGRESS } /\ changed /\ cur # trigger_on_press
         -> "release"
    [] OTHER -> "none"

\* The Action call update() makes for the override state it finds.
UpdateCall(ov, changed, cur) ==
  CASE ov = RELEASE -> "release"
    [] ov = PRESS -> "press"
    [] ov = NOOVERRIDE /\ changed /\ cur = trigger_on_press -> "press"
    [] ov = NOOVERRIDE /\ changed /\ cur # trigger_on_press -> "release"
    [] OTHER -> "none"

\* trigger_high_timestamp after the switch of update().
UpdateHighTimestamp(ov, ts, high) ==
  IF (ov = RELEASE /\ ~trigger_on_press) \/ (ov = PRESS /\ trigger_on_press)
  THEN ts
  ELSE high

\* report_raw's trigger flag.
RawTriggerState(cur, ov) == cur \/ ov = OVERRIDE_IN_PROGRESS \/ ov = PRESS

\* report_summary's first branch: the button edge is recorded.
SummaryRecords(ov, last, cur) ==
  ov = NOOVERRIDE /\ state_changed(last, cur) /\ cur = trigger_on_press

\* A second branch that is tested after the first instead of in its place.
SummaryEmitsAfterRecording(ov, last, cur, high, b, thr) == high # 0 /\ b > thr

\* report_summary's second branch: a latency is reported.
SummaryEmits(ov, last, cur, high, b, thr) ==
  ~SummaryRecords(ov, last, cur) /\ high # 0 /\ b > thr

Bit(p) == IF p THEN 1 ELSE 0

\* The rest of FakeLDAT::tick once the drain loop has ended: update(), then
\* report_raw() and report_summary() as the mode selects. pin_low is
\* digitalRead(pin) == LOW, reading is analogRead(pin), elapsed is the advance
\* of time_us_64() since the previous tick's reading of it.
TickRest(pin_low, reading, elapsed) ==
  /\ ~halted
  /\ \E est \in { IF ReportsSummary(mode)
                  THEN calc_threshold(history, count, threshold, SensorMeasure(reading))
                  ELSE [ value |-> last_threshold, history |-> history,
                         count |-> count ] } :
     LET b == SensorMeasure(reading)
         thr == est.value
         ts == timestamp + elapsed
         ov == trigger_override
         polled == ov = NOOVERRIDE
         btn == IF polled THEN ButtonMeasure(current_state, pin_low)
                ELSE << last_state, current_state >>
         kind == UpdateCall(ov, state_changed(btn[1], btn[2]), btn[2])
         high == UpdateHighTimestamp(ov, ts, trigger_high_timestamp)
         adv == update_trigger_override(ov, trigger_override_count)
         raw == ReportsRaw(mode)
         summ == ReportsSummary(mode)
         records == summ /\ SummaryRecords(adv[1], btn[1], btn[2])
         emits == summ /\ SummaryEmits(adv[1], btn[1], btn[2], high, b, thr)
         raw_frames ==
           IF raw
           THEN << write_report(REPORT_RAW, ts, b, Bit(RawTriggerState(btn[2], adv[1]))) >>
           ELSE << >>
         summary_frames ==
           IF emits
           THEN << write_report(REPORT_SUMMARY, ts - high, thr, 1) >>
           ELSE << >>
     IN /\ brightness' = b
        /\ timestamp' = ts
        /\ last_state' = btn[1]
        /\ current_state' = btn[2]
        /\ trigger_override' = adv[1]
        /\ trigger_override_count' = adv[2]
        /\ trigger_high_timestamp' =
             IF records THEN ts ELSE IF emits THEN 0 ELSE high
        /\ history' = est.history
        /\ count' = est.count
        /\ last_threshold' = thr
        /\ reports' = raw_frames \o summary_frames
        /\ rx' = << >>
        /\ resp' = << >>
        /\ sink' = IF kind = "none" THEN << >>
                   ELSE << ActionCall(kind, action_mode, action_button) >>
        /\ pins' = IF polled
                   THEN (IF pins = << >> THEN << pin_low >>
                         ELSE << pins[Len(pins)], pin_low >>)
                   ELSE pins
        /\ pulse_ticks' = IF pulse_seen THEN pulse_ticks + 1 ELSE pulse_ticks
        /\ pulse_press' = IF pulse_seen /\ kind = "press"
                          THEN pulse_press + 1 ELSE pulse_press
        /\ pulse_release' = IF pulse_seen /\ kind = "release"
                            THEN pulse_release + 1 ELSE pulse_release
        /\ pulse_oip' = IF pulse_seen /\ ov = OVERRIDE_IN_PROGRESS /\ kind = "none"
                        THEN pulse_oip + 1 ELSE pulse_oip
        /\ oip_count' = IF adv[1] = OVERRIDE_IN_PROGRESS THEN adv[2] ELSE oip_count
        /\ last_call' = IF kind = "none" THEN last_call ELSE kind
  /\ ticks' = ticks + 1
  /\ UNCHANGED << config, halted, frames, mode_request, pulse_seen >>

\* ------------------------------------------------------------- construction

\* FakeLDAT::FakeLDAT(button_pin, sensor_pin, offset_pin, rate, report_mode,
\* action_mode) with the member initialisers of the class, Button::Button,
\* Action::Action and the zero-initialised statics of calc_threshold.
\* Button::Button sets last_state only, so current_state starts with whatever
\* the allocation holds (garbage); Sensor::brightness is written by the first
\* measure() before anything reads it.
Construct(rate, report_mode, start_mode, garbage) ==
  /\ interval_us = U64Div(MICROS_PER_SECOND, rate)
  /\ mode = report_mode
  /\ threshold = 150
  /\ action_mode = start_mode
  /\ action_button = ActionButton(start_mode)
  /\ trigger_override = NOOVERRIDE
  /\ trigger_override_count = 0
  /\ last_state = FALSE
  /\ current_state = garbage
  /\ brightness = 0
  /\ timestamp = BootTime
  /\ trigger_high_timestamp = 0
  /\ history = [i \in {} |-> 0]
  /\ count = 0
  /\ halted = FALSE
  /\ rx = << >>
  /\ resp = << >>
  /\ reports = << >>
  /\ sink = << >>
  /\ last_threshold = 0
  /\ ticks = 0
  /\ frames = 0
  /\ mode_request = -1
  /\ pins = << >>
  /\ pulse_seen = FALSE
  /\ pulse_ticks = 0
  /\ pulse_press = 0
  /\ pulse_release = 0
  /\ pulse_oip = 0
  /\ oip_count = -1
  /\ last_call = "none"

\* ------------------------------------------------------------------- inputs

RECURSIVE SumBytes(_, _)
\* The plain sum of the first n bytes of a frame.
SumBytes(buf, n) == IF n = 0 THEN 0 ELSE SumBytes(buf, n - 1) + buf[n]

\* A frame as a host sends it: opcode, bytes 1, 2 and 14, zeros between, and in
\* byte 15 the sum of bytes 0 .. 14 mod 256 plus `off` (0 for a sound frame).
MkFrame(op, b1, b2, b14, off) ==
  LET body == << op, b1, b2, 0, 0, 0, 0, 0, 0, 0, 0, 0, 0, 0, b14 >>
  IN Append(body, (SumBytes(body, 15) + off) % 256)

\* Poll rates sent: 0, a rate that divides 1000000 (a pulse of 1 tick), one
\* that does not, and the largest u16.
RateWords == { 0, 20, 3000, 65535 }
\* Threshold words sent: 0 and -300 as i16.
ThresholdWords == { 0, 65236 }
ModeBytes == { 0, 1, 2, 3, 4 }
KindBytes == { 0, 1, 2, 3 }

SetFrames ==
  { MkFrame(SET_POLL_RATE, w % 256, w \div 256, 0, 0) : w \in RateWords }
  \cup { MkFrame(SET_THRESHOLD, w % 256, w \div 256, 0, 0) : w \in ThresholdWords }
  \cup { MkFrame(SET_REPORT_MODE, b, 0, 0, 0) : b \in ModeBytes }
  \cup { MkFrame(SET_ACTION, b, KEY_X, 0, 0) : b \in KindBytes }

GetFrames ==
  { MkFrame(op, 9, 0, 0, 0) :
      op \in { GET_POLL_RATE, GET_REPORT_MODE, GET_THRESHOLD, GET_ACTION } }

TriggerFrames == { MkFrame(MANUAL_TRIGGER, 5, 6, 7, 0) }

\* Frames the drain loop must drop: sound frames of opcodes outside the
\* allow-list, and allow-listed frames whose byte 15 is off.
BadFrames ==
  { MkFrame(op, 1, 0, 0, 0) : op \in { 0, REPORT_RAW } }
  \cup { MkFrame(SET_REPORT_MODE, 1, 0, 0, 1), MkFrame(SET_POLL_RATE, 20, 0, 0, 255),
         MkFrame(MANUAL_TRIGGER, 0, 0, 0, 1) }

Frames == SetFrames \cup GetFrames \cup TriggerFrames \cup BadFrames

\* analogRead values: a dark and a lit screen.
Readings == { 0, 4000 }
\* Advance of the microsecond clock from one tick to the next.
ClockSteps == { 500 }

\* ------------------------------------------------------------ specification

Init == \E garbage \in BOOLEAN : Construct(SETUP_RATE, RAW, MOUSE, garbage)

Drain == frames < MaxFrames /\ \E f \in Frames : HandleFrame(f)

Tick ==
  /\ ticks < MaxTicks
  /\ \E pin_low \in BOOLEAN : \E reading \in Readings : \E elapsed \in ClockSteps :
       TickRest(pin_low, reading, elapsed)

Next == Drain \/ Tick

Spec == Init /\ [][Next]_vars

\* ------------------------------------------------- manual-pulse specification

\* Rates the engine is constructed with: pulses of 100, 2, 1 and 0 ticks.
PulseRates == { 2000, 40, 20, 10 }

InitPulse ==
  \E rate \in PulseRates : \E garbage \in BOOLEAN :
    Construct(rate, RAW, MOUSE, garbage)

\* The one MANUAL_TRIGGER frame of the scenario, read while no override runs
\* and the button is idle.
PulseTrigger ==
  /\ ~pulse_seen
  /\ trigger_override = NOOVERRIDE
  /\ ~current_state
  /\ \E f \in TriggerFrames : HandleFrame(f)

\* A tick with the button pin high.
PulseTick ==
  /\ ticks < MaxPulseTicks
  /\ \E reading \in Readings : \E elapsed \in ClockSteps :
       TickRest(FALSE, reading, elapsed)

NextPulse == PulseTrigger \/ PulseTick

SpecPulse == InitPulse /\ [][NextPulse]_vars

\* -------------------------------------------- fair manual-pulse specification

\* loop() never returns: the tick after this one always comes. Idle ticks are
\* counted up to MaxIdleTicks; the ticks of a running pulse are not bounded.
LiveTick ==
  /\ ticks < MaxIdleTicks \/ trigger_override # NOOVERRIDE
  /\ \E reading \in Readings : \E elapsed \in ClockSteps :
       TickRest(FALSE, reading, elapsed)

NextLive == PulseTrigger \/ LiveTick

SpecLive == InitPulse /\ [][NextLive]_vars /\ WF_vars(LiveTick)

\* ---------------------------------------------- constant-stream specification

\* analogRead values of the constant streams: brightness 0, 200 and 4095.
StreamReadings == { 4095, 3895, 0 }
\* Bias words sent before the stream starts: 0, -1 and -300 as i16.
BiasFrames ==
  { MkFrame(SET_THRESHOLD, w % 256, w \div 256, 0, 0) : w \in { 0, 65535, 65236 } }

InitThreshold == \E garbage \in BOOLEAN : Construct(SETUP_RATE, SUMMARY, MOUSE, garbage)

\* The bias is set before the first sample (or left at its default).
SetBias ==
  /\ frames = 0
  /\ count = 0
  /\ \E f \in BiasFrames : HandleFrame(f)

\* A tick in Summary mode whose sample is the one of the tick before.
Feed ==
  /\ ticks < MaxUpdates
  /\ \E reading \in StreamReadings : \E elapsed \in ClockSteps :
       /\ count = 0 \/ SensorMeasure(reading) = brightness
       /\ TickRest(FALSE, reading, elapsed)

NextThreshold == SetBias \/ Feed

SpecThreshold == InitThreshold /\ [][NextThreshold]_vars

\* -------------------------------------------------- step-stream specification

\* analogRead values of the free samples: brightness 0, 150 and 4095.
LitReadings == { 4095, 3945, 0 }

\* A tick in Summary mode: any of the samples above in the first MaxLitUpdates
\* updates, brightness 0 from then on.
StepFeed ==
  /\ ticks < MaxStepUpdates
  /\ \E reading \in (IF count < MaxLitUpdates THEN LitReadings ELSE { 4095 }) :
       \E elapsed \in ClockSteps : TickRest(FALSE, reading, elapsed)

NextStep == SetBias \/ StepFeed

SpecStep == InitThreshold /\ [][NextStep]_vars

\* ---------------------------------------------------- override specification

\* Rates the engine is constructed with: pulses of 100 and 0 ticks.
OverrideRates == { 2000, 10 }

\* The engine constructed in a mode that runs the summary rule.
InitOverride ==
  \E rate \in OverrideRates : \E report_mode \in { SUMMARY, COMBINED } :
    \E garbage \in BOOLEAN : Construct(rate, report_mode, MOUSE, garbage)

\* A MANUAL_TRIGGER frame read at any point, also while a pulse runs.
OverrideTrigger ==
  /\ frames < MaxTriggers
  /\ \E f \in TriggerFrames : HandleFrame(f)

\* A tick with the button pin at either level.
OverrideTick ==
  /\ ticks < MaxOverrideTicks
  /\ \E pin_low \in BOOLEAN : \E reading \in Readings : \E elapsed \in ClockSteps :
       TickRest(pin_low, reading, elapsed)

NextOverride == OverrideTrigger \/ OverrideTick

SpecOverride == InitOverride /\ [][NextOverride]_vars

\* ------------------------------------------------------------------- claims

\* What the protocol calls a sound frame: an opcode of the allow-list and a
\* byte 15 equal to the sum of bytes 0 .. 14 mod 256.
AllowList == { 1, 33, 2, 34, 3, 35, 4, 36, 31 }
SoundFrame(f) == f[1] \in AllowList /\ f[16] = SumBytes(f, 15) % 256

\* C1: a drain iteration that reads a frame whose opcode is outside the
\* allow-list, or whose byte 15 is not the sum of bytes 0 .. 14 mod 256, writes
\* no frame and leaves the poll interval, the report mode, the threshold bias,
\* the action kind and code and the override state and counter unchanged.
C1_UnsoundFrameIgnored ==
  [][ (frames' = frames + 1 /\ ~SoundFrame(rx'))
        => /\ resp' = << >>
           /\ reports' = reports
           /\ UNCHANGED << interval_us, mode, threshold, action_mode, action_button,
                           trigger_override, trigger_override_count >> ]_vars

\* C1 witness: unsound frames have been read after a sound SET_REPORT_MODE had
\* changed the mode, and nothing was written back.
C1_Witness ==
  /\ rx # << >>
  /\ ~SoundFrame(rx)
  /\ rx[1] \in AllowList
  /\ resp = << >>
  /\ mode = SUMMARY

\* C2: every frame written to the transport, the response of an accepted
\* command frame and every raw or summary report, has byte 15 equal to the sum
\* of its bytes 0 .. 14 mod 256.
C2_WrittenFramesChecksum ==
  /\ resp # << >> => resp[16] = SumBytes(resp, 15) % 256
  /\ \A i \in 1..Len(reports) : reports[i][16] = SumBytes(reports[i], 15) % 256

\* C2 witness: a tick has written a raw report with the trigger flag set and a
\* summary report.
C2_Witness ==
  /\ Len(reports) = 2
  /\ reports[1][1] = REPORT_RAW
  /\ reports[1][12] = 1
  /\ reports[2][1] = REPORT_SUMMARY

\* C3 as claimed: the response of an accepted SET_POLL_RATE frame carries in
\* bytes 1-2 the rate r the frame carried (stated for the rates r >= 1, whose
\* interval 1000000 / r is defined).
C3_ResponseEchoesRate ==
  (resp # << >> /\ rx[1] = SET_POLL_RATE /\ Word(rx) >= 1) => Word(resp) = Word(rx)

\* C3 as amended: for a rate r >= 1 the response of an accepted SET_POLL_RATE
\* frame carries in bytes 1-2 the low 16 bits of 1000000 / poll_interval_us for
\* the newly stored poll_interval_us = 1000000 / r.
C3_ResponseRecomputesRate ==
  (resp # << >> /\ rx[1] = SET_POLL_RATE /\ Word(rx) >= 1)
    => /\ interval_us = 1000000 \div Word(rx)
       /\ Word(resp) = ((1000000 \div (1000000 \div Word(rx))) % 65536)

\* C3 witness: the rate 3000 has been set and answered with 3003.
C3_Witness ==
  /\ resp # << >>
  /\ rx[1] = SET_POLL_RATE
  /\ Word(rx) = 3000
  /\ Word(resp) = 3003
  /\ interval_us = 333

\* C4: the response of every accepted SET_POLL_RATE, SET_REPORT_MODE,
\* SET_THRESHOLD or SET_ACTION frame carries the setting as stored after the
\* dispatch, that is, what the matching GET frame would answer next.
C4_SetAnswersStoredValue ==
  resp # << >> =>
    /\ rx[1] = SET_REPORT_MODE => resp[2] = mode
    /\ rx[1] = SET_ACTION => (resp[2] = action_mode /\ resp[3] = action_button)
    /\ rx[1] = SET_THRESHOLD => Word(resp) = (threshold + 65536) % 65536
    /\ (rx[1] = SET_POLL_RATE /\ interval_us > 0)
         => Word(resp) = (1000000 \div interval_us) % 65536

\* The pulse length the claim names: 50000 / poll_interval_us.
PulseLength == 50000 \div interval_us

\* C5: after the one MANUAL_TRIGGER frame, read with the button idle and
\* followed by no further command, the k-th tick finds: one press call made in
\* the first tick, then min(k - 1, n) ticks in OverrideInProgress without an
\* Action call, the one release call in tick n + 2, and no other Action call,
\* for n = 50000 / poll_interval_us.
C5_SinglePulse ==
  pulse_seen =>
    /\ pulse_press = (IF pulse_ticks >= 1 THEN 1 ELSE 0)
    /\ pulse_oip = (IF pulse_ticks = 0 THEN 0
                    ELSE IF pulse_ticks - 1 <= PulseLength THEN pulse_ticks - 1
                    ELSE PulseLength)
    /\ pulse_release = (IF pulse_ticks >= PulseLength + 2 THEN 1 ELSE 0)
    /\ (pulse_ticks >= 1 /\ sink # << >>) =>
         (pulse_ticks = 1 \/ pulse_ticks = PulseLength + 2)

\* C5 witness: at poll_interval_us = 500 a pulse has run its 100 ticks, was
\* released, and a further tick made no Action call.
C5_Witness ==
  /\ pulse_seen
  /\ interval_us = 500
  /\ pulse_press = 1
  /\ pulse_oip = 100
  /\ pulse_release = 1
  /\ pulse_ticks = 103
  /\ trigger_override = NOOVERRIDE
  /\ sink = << >>

\* C6: after each measurement state_changed() tells whether that measurement
\* differs from the one before it, the first one being compared with the
\* inactive state.
C6_EdgeFollowsMeasurements ==
  pins # << >> =>
    (state_changed(last_state, current_state)
       <=> (pins[Len(pins)] # (IF Len(pins) = 2 THEN pins[1] ELSE FALSE)))

\* C7 as claimed: fed the same sample v on every call, once 150 updates have
\* been made the threshold returned is v + bias (stated for v + bias >= 0,
\* where the conversion to u16 changes nothing).
C7_ConstantStreamAt150 ==
  (count >= 150 /\ brightness + threshold >= 0)
    => last_threshold = brightness + threshold

\* C7 as amended: fed the same sample v on every call, every update after the
\* first 150 (the 151st on) returns v + bias reduced mod 2^16.
C7_ConstantStreamAfter150 ==
  count >= 151 => last_threshold = (brightness + threshold + 65536) % 65536

\* C7 witness: the constant 200 with bias 0 has been fed 151 times and the
\* 151st update returned 200.
C7_Witness ==
  /\ count = 151
  /\ brightness = 200
  /\ threshold = 0
  /\ last_threshold = 200


\* C8: while the latest accepted SET_REPORT_MODE frame is one with byte 1 = 0,
\* every tick, the one that read the frame included, writes exactly one raw
\* report and no summary report.
C8_RawModeReports ==
  [][ (ticks' = ticks + 1 /\ mode_request = RAW)
        => /\ Len(reports') = 1
           /\ reports'[1][1] = REPORT_RAW ]_vars

\* C8 witness: a tick has run calc_threshold in a summary mode, the mode was
\* then set back to Raw by a frame, and a tick has reported since.
C8_Witness ==
  /\ mode_request = RAW
  /\ count >= 1
  /\ rx = << >>
  /\ Len(reports) = 1
  /\ reports[1][1] = REPORT_RAW

\* C9: the stored report mode is always Raw, Summary or Combined.
C9_ReportModeInRange == mode \in { RAW, SUMMARY, COMBINED }

\* C10: the stored Action kind is always PointerButton or KeyboardKey.
C10_ActionKindInRange == action_mode \in { MOUSE, KEYBOARD }

\* C11 as claimed: the counter of an OverrideInProgress state is never above
\* the counter of an earlier OverrideInProgress state, whatever ticks and
\* accepted commands lie between the two, and it stays within 0 .. 65535.
C11_CounterNeverIncreases ==
  [][ (ticks' = ticks + 1 /\ trigger_override' = OVERRIDE_IN_PROGRESS)
        => /\ trigger_override_count' \in 0..65535
           /\ oip_count # -1 => trigger_override_count' <= oip_count ]_vars

\* C11 as amended: a tick never raises the counter, lowers it by one exactly
\* when it finds OverrideInProgress (or Press) with a counter above 0 and
\* leaves it alone otherwise, so that it never passes below 0; the counter
\* stays within 0 .. 65535; and the only step that changes it otherwise is
\* the dispatch of an accepted MANUAL_TRIGGER frame.
C11_CounterFallsWithinPulse ==
  [][ /\ trigger_override_count' \in 0..65535
      /\ ticks' = ticks + 1 =>
            trigger_override_count' =
              (IF trigger_override \in { PRESS, OVERRIDE_IN_PROGRESS }
                  /\ trigger_override_count > 0
               THEN trigger_override_count - 1
               ELSE trigger_override_count)
      /\ (frames' = frames + 1 /\ trigger_override_count' # trigger_override_count)
            => (rx'[1] = MANUAL_TRIGGER /\ trigger_override' = PRESS) ]_vars

\* C11 witness: a pulse of 100 ticks was restarted by a second MANUAL_TRIGGER
\* after two ticks and is counting down again from 99.
C11_Witness ==
  /\ frames = 2
  /\ ticks = 4
  /\ trigger_override = OVERRIDE_IN_PROGRESS
  /\ trigger_override_count = 98
  /\ pulse_ticks = 2

\* C12: after the one MANUAL_TRIGGER frame, with no further frame, the override
\* state is eventually NoOverride again; a tick that finds OverrideInProgress
\* with counter 0 makes no Action call and leaves Release, and the tick that
\* finds Release makes the release call and leaves NoOverride.
C12_PulseReturnsToNoOverride ==
  /\ (trigger_override # NOOVERRIDE) ~> (trigger_override = NOOVERRIDE)
  /\ [][ (ticks' = ticks + 1 /\ trigger_override = OVERRIDE_IN_PROGRESS
             /\ trigger_override_count = 0)
           => (trigger_override' = RELEASE /\ sink' = << >>) ]_vars
  /\ [][ (ticks' = ticks + 1 /\ trigger_override = RELEASE)
           => /\ trigger_override' = NOOVERRIDE
              /\ Len(sink') = 1
              /\ sink'[1].call = "release" ]_vars

\* C12 witness: at poll_interval_us = 500 the pulse has passed its 100 ticks of
\* OverrideInProgress and the tick that found Release has made the release
\* call and left NoOverride.
C12_Witness ==
  /\ pulse_seen
  /\ interval_us = 500
  /\ pulse_ticks = 102
  /\ pulse_oip = 100
  /\ trigger_override = NOOVERRIDE
  /\ Len(sink) = 1
  /\ sink[1].call = "release"

\* C13: every tick, whatever the report mode, advances the write counter of
\* the threshold history by exactly one and leaves that tick's brightness in
\* the slot at the previous count mod 150.
C13_HistoryWrittenEveryTick ==
  [][ ticks' = ticks + 1
        => /\ count' = count + 1
           /\ (count % 150) \in DOMAIN history'
           /\ history'[count % 150] = brightness' ]_vars

\* The slots that hold a non-zero sample, and the sum of the slots of a set.
LitSlots(h) == { i \in DOMAIN h : h[i] # 0 }
RECURSIVE SumOver(_, _)
SumOver(h, S) ==
  IF S = {} THEN 0
  ELSE LET i == CHOOSE j \in S : TRUE IN h[i] + SumOver(h, S \ { i })

\* C14: an update returns the sum of the 150 slots as they were before the
\* call, divided by 150, plus the bias (mod 2^16), whatever the sample passed
\* to it; it stores the sample in slot count mod 150 and changes no other
\* slot; and a sample stored by the call numbered i is in the history, and so
\* in the sum, of exactly the calls numbered i + 1 .. i + 150.
C14_SumBeforeWrite ==
  /\ [][ count' = count + 1
           => /\ last_threshold' =
                   ((SumOver(history, LitSlots(history)) \div 150) + threshold
                      + 65536) % 65536
              /\ DOMAIN history' = DOMAIN history \cup { count % 150 }
              /\ history'[count % 150] = brightness'
              /\ \A i \in DOMAIN history :
                    i # count % 150 => history'[i] = history[i] ]_vars
  /\ [](\A i \in LitSlots(history) : i + 1 <= count /\ count <= i + 150)

\* C14 witness: the sample 4095 of the third update is still counted by the
\* 152nd, which returned 4095 / 150 + 150 = 177 after the first two slots had
\* been overwritten with 0.
C14_Witness ==
  /\ count = 152
  /\ LitSlots(history) = { 2 }
  /\ history[2] = 4095
  /\ threshold = 150
  /\ brightness = 0
  /\ last_threshold = 177

\* C15: a tick that finds an override state other than NoOverride does not
\* measure the button, leaves last_state and current_state unchanged and makes
\* only the Action call of the override state (press for Press, release for
\* Release, none for OverrideInProgress); a tick that finds NoOverride, and so
\* measures the button, leaves the override state and its counter unchanged.
C15_ButtonAndOverrideDisjoint ==
  [][ ticks' = ticks + 1
        => /\ trigger_override # NOOVERRIDE
                => /\ pins' = pins
                   /\ last_state' = last_state
                   /\ current_state' = current_state
                   /\ trigger_override = OVERRIDE_IN_PROGRESS => sink' = << >>
                   /\ trigger_override = PRESS
                        => (Len(sink') = 1 /\ sink'[1].call = "press")
                   /\ trigger_override = RELEASE
                        => (Len(sink') = 1 /\ sink'[1].call = "release")
           /\ trigger_override = NOOVERRIDE
                => /\ pins' # << >>
                   /\ trigger_override' = NOOVERRIDE
                   /\ trigger_override_count' = trigger_override_count ]_vars

\* C15 witness: the button was read high, then low (pressed); a MANUAL_TRIGGER
\* followed, and the second tick of the pulse made no Action call although the
\* button still shows the press as a change.
C15_Witness ==
  /\ pins = << FALSE, TRUE >>
  /\ ~last_state
  /\ current_state
  /\ trigger_override = OVERRIDE_IN_PROGRESS
  /\ pulse_ticks = 2
  /\ pulse_oip = 1
  /\ sink = << >>

\* C16: a tick whose summary rule records trigger_high_timestamp = now from
\* the button (the override is NoOverride when the report runs) is a tick that
\* found NoOverride, measured the button, and whose measurement changed the
\* button from inactive to active. Stated for ticks after the first
\* measurement of the button.
C16_RecordsOnlyFreshPress ==
  [][ (/\ ticks' = ticks + 1
       /\ ReportsSummary(mode)
       /\ pins # << >>
       /\ trigger_override' = NOOVERRIDE
       /\ trigger_high_timestamp' = timestamp')
        => /\ trigger_override = NOOVERRIDE
           /\ ~current_state
           /\ current_state' ]_vars

\* C17: the Action calls alternate: a press call is never made when the
\* latest call before it was a press, and a release call is never made when
\* the latest call before it was a release. (Which call comes first depends on
\* what Button holds before its first measurement, the subject of C6.)
C17_CallsAlternate ==
  [][ (ticks' = ticks + 1 /\ sink' # << >>)
        => /\ sink'[1].call = "press" => last_call # "press"
           /\ sink'[1].call = "release" => last_call # "release" ]_vars

\* C18: whatever frames have been accepted, no division by zero has stopped
\* the engine and poll_interval_us is a quotient 1000000 / rate of a non-zero
\* u16 rate, which lies in 15 .. 1000000 and so is greater than 0.
C18_PollIntervalPositive ==
  /\ ~halted
  /\ interval_us >= 15
  /\ interval_us <= 1000000

\* The summary frames among a tick's reports, and the latency a summary frame
\* carries in bytes 1 .. 8 (every modelled latency fits its low four bytes).
SummaryFrames(rs) == { rs[k] : k \in { j \in 1..Len(rs) : rs[j][1] = REPORT_SUMMARY } }
Latency(f) == f[2] + 256 * f[3] + 65536 * f[4] + 16777216 * f[5]

\* C19 as claimed: a tick that records trigger_high_timestamp, from the button
\* in the summary rule or from a manual press in update(), emits no summary
\* report, and every summary report carries a latency above 0.
C19_NoReportInRecordingTick ==
  [][ ticks' = ticks + 1
        => /\ (trigger_override = PRESS
                 \/ (trigger_override' = NOOVERRIDE
                       /\ trigger_high_timestamp' = timestamp'))
                => SummaryFrames(reports') = {}
           /\ \A f \in SummaryFrames(reports') : Latency(f) > 0 ]_vars

\* C19 as amended: a tick whose summary rule records trigger_high_timestamp
\* from the button emits no summary report, and a summary report of a tick
\* that did not issue a manual press carries a latency above 0; the tick that
\* issues a manual press records the timestamp in update() and, when the
\* brightness exceeds the threshold, emits a summary report of latency 0 and
\* clears the timestamp.
C19_NoReportWhenButtonRecorded ==
  [][ (ticks' = ticks + 1 /\ ReportsSummary(mode))
        => /\ (trigger_override' = NOOVERRIDE
                 /\ trigger_high_timestamp' = timestamp')
                => SummaryFrames(reports') = {}
           /\ trigger_override # PRESS
                => \A f \in SummaryFrames(reports') : Latency(f) > 0
           /\ (trigger_override = PRESS /\ brightness' > last_threshold')
                => /\ SummaryFrames(reports') # {}
                   /\ \A f \in SummaryFrames(reports') : Latency(f) = 0
                   /\ trigger_high_timestamp' = 0
           /\ (trigger_override = PRESS /\ ~(brightness' > last_threshold'))
                => /\ SummaryFrames(reports') = {}
                   /\ trigger_high_timestamp' = timestamp' ]_vars

\* C19 witness: the button was read low, then high; a MANUAL_TRIGGER followed,
\* and the tick that issued its press emitted a summary report of latency 0
\* and cleared the timestamp.
C19_Witness ==
  /\ pins = << TRUE, FALSE >>
  /\ ticks = 3
  /\ pulse_ticks = 1
  /\ pulse_press = 1
  /\ SummaryFrames(reports) # {}
  /\ \A f \in SummaryFrames(reports) : Latency(f) = 0
  /\ trigger_high_timestamp = 0

\* C20: every update returns floor(sum of the 150 slots before the call / 150)
\* + bias as an integer, not reduced mod 2^16, and with a negative bias the
\* value is never above 4095, the largest average of brightness values.
C20_ThresholdDoesNotWrap ==
  [][ count' = count + 1
        => /\ last_threshold' =
                 (SumOver(history, LitSlots(history)) \div 150) + threshold
           /\ threshold < 0 => last_threshold' <= 4095 ]_vars

====
